---- MODULE Spec2Model ----
(***************************************************************************)
(* Model of kiss-orm's CrudRepository (get / search / create / update /    *)
(* delete against an injected DatabaseInterface) and of Query.compile.     *)
(*                                                                         *)
(* A query fragment is the sequence of its parts.  A part is a record      *)
(*   [t, s, v, q]  with t = "str"   : a literal string s                   *)
(*                      t = "param" : a QueryParam holding the value v     *)
(*                      t = "ident" : a QueryIdentifier named s            *)
(*                      t = "query" : a nested fragment whose parts are q  *)
(* Runs of white space inside the template literals of the source are      *)
(* written as one space.                                                   *)
(***************************************************************************)
EXTENDS Integers, Sequences, FiniteSets, TLC

VARIABLES scope, pc, op, calls, replies, inSequence, result, prev,
          tree, placeholder, compiled

vars == <<scope, pc, op, calls, replies, inSequence, result, prev,
          tree, placeholder, compiled>>
repoVars == <<scope, pc, op, calls, replies, inSequence, result, prev>>
compileVars == <<tree, placeholder, compiled>>

(* ---------------------------- bounds ----------------------------------- *)
MaxRows == 2
MaxInserted == 1
MaxParts == 2
MaxDepth == 1

(* ---------------------------- JS values -------------------------------- *)
Undefined == [ty |-> "undefined", n |-> 0, s |-> ""]
Num(n) == [ty |-> "number", n |-> n, s |-> ""]
Str(s) == [ty |-> "string", n |-> 0, s |-> s]

EmptyRow == [f \in {} |-> Undefined]

(* Object.assign(target, source): every own field of source overrides.     *)
Assign(target, source) ==
    [f \in (DOMAIN target) \cup (DOMAIN source) |->
        IF f \in DOMAIN source THEN source[f] ELSE target[f]]

(* ---------------------------- fragments -------------------------------- *)
Lit(s) == [t |-> "str", s |-> s, v |-> Undefined, q |-> <<>>]
Param(v) == [t |-> "param", s |-> "", v |-> v, q |-> <<>>]
Ident(s) == [t |-> "ident", s |-> s, v |-> Undefined, q |-> <<>>]
Nested(q) == [t |-> "query", s |-> "", v |-> Undefined, q |-> q]
Raw(v) == [t |-> "raw", s |-> "", v |-> v, q |-> <<>>]

(* The tagged template: strings[1], arg 1, strings[2], ..., a fragment or  *)
(* an identifier is spliced in as it is, anything else becomes a param.    *)
Sql(strings, args) ==
    [i \in 1..(2 * Len(strings) - 1) |->
        IF i % 2 = 1
        THEN Lit(strings[(i + 1) \div 2])
        ELSE LET a == args[i \div 2]
             IN  IF a.t \in {"query", "ident"} THEN a ELSE Param(a.v)]

(* SqlQuery.join: the fragments with the separator between each two.       *)
Join(queries, separator) ==
    [i \in 1..(IF Len(queries) = 0 THEN 0 ELSE 2 * Len(queries) - 1) |->
        IF i % 2 = 1 THEN Nested(queries[(i + 1) \div 2]) ELSE Nested(separator)]

(* An optional argument: undefined/null, or a fragment.                    *)
None == [some |-> FALSE, q |-> <<>>]
Some(q) == [some |-> TRUE, q |-> q]
(* What the template receives for `${x}` when x is an optional fragment.   *)
ArgOf(opt) == IF opt.some THEN Nested(opt.q) ELSE Raw(Undefined)

(* ---------------------------- inputs ----------------------------------- *)
table == "t"
primaryKey == "id"

Keys == {Num(1), Str("k")}
Fields == <<"id", "name">>
Rows == { [id |-> Num(1)],
          [id |-> Num(1), name |-> Str("a")],
          [id |-> Str("k"), name |-> Str("b")] }
RowLists == UNION { [1..n -> Rows] : n \in 0..MaxRows }
UpdateAttributes == {EmptyRow, [name |-> Str("c")]}

(* An element of the array insertAndGet resolves to.                       *)
Scalar(v) == [ty |-> v.ty, n |-> v.n, s |-> v.s, row |-> EmptyRow]
Object(row) == [ty |-> "object", n |-> 0, s |-> "", row |-> row]
NullData == [ty |-> "null", n |-> 0, s |-> "", row |-> EmptyRow]
UndefinedData == [ty |-> "undefined", n |-> 0, s |-> "", row |-> EmptyRow]
Data == {Scalar(Num(0)), Scalar(Num(1)), Scalar(Str("k")), NullData}
        \cup {Object(r) : r \in Rows}
DataLists == UNION { [1..n -> Data] : n \in 0..MaxInserted }

(* Fragments a caller passes in.                                           *)
ScopeQ == Sql(<<"tenant = ", "">>, <<Raw(Num(7))>>)
WhereQ == Sql(<<"name = ", "">>, <<Raw(Str("a"))>>)
FromQ == Sql(<<"t JOIN u">>, <<>>)
SelectQ == Sql(<<"id, name">>, <<>>)
GroupByQ == Sql(<<"name">>, <<>>)
OrderByQ == Sql(<<"id DESC">>, <<>>)
PostfixQ == Sql(<<"LIMIT ", "">>, <<Raw(Num(1))>>)
Opt(q) == {None, Some(q)}

NoOp == [name |-> "none", key |-> Undefined, model |-> EmptyRow, attrs |-> EmptyRow,
         from |-> None, postfix |-> None, where |-> None, groupBy |-> None,
         orderBy |-> None, select |-> None]
Pending == [kind |-> "pending", model |-> EmptyRow, models |-> <<>>]
NoPrev == [name |-> "none", key |-> Undefined, kind |-> "pending"]

(* The two handles of the code: the repository's own, and the one the      *)
(* sequence passes to its callback.                                        *)
database == "database"
sequenceDb == "sequenceDb"
Call(method, handle, query, inSeq) ==
    [method |-> method, handle |-> handle, query |-> query, inSeq |-> inSeq]
RowsReply(rows) == [null |-> FALSE, rows |-> rows, data |-> <<>>]
NullReply == [null |-> TRUE, rows |-> <<>>, data |-> <<>>]
DataReply(data) == [null |-> FALSE, rows |-> <<>>, data |-> data]

(* ---------------------------- results ---------------------------------- *)
NotFoundError == [kind |-> "NotFound", model |-> EmptyRow, models |-> <<>>]
TooManyResultsError == [kind |-> "TooManyResults", model |-> EmptyRow, models |-> <<>>]
(* createModelFromAttributes: a fresh object with the attributes assigned. *)
createModelFromAttributes(attributes) == Assign(EmptyRow, attributes)
ReturnModel(m) == [kind |-> "model", model |-> m, models |-> <<>>]
ReturnModels(ms) == [kind |-> "models", model |-> EmptyRow, models |-> ms]
ReturnVoid == [kind |-> "void", model |-> EmptyRow, models |-> <<>>]

(* Start of a call, once the caller has the result of the one before.      *)
Begin(o) ==
    /\ pc = "idle"
    /\ op' = o
    /\ result' = Pending
    /\ UNCHANGED <<scope, prev, compileVars>>

(* The promise of the call has settled and the caller goes on; prev        *)
(* remembers the call when it was a delete.                                *)
settle ==
    /\ pc = "done"
    /\ pc' = "idle"
    /\ prev' = IF op.name = "delete"
               THEN [name |-> op.name, key |-> op.key, kind |-> result.kind]
               ELSE NoPrev
    /\ op' = NoOp
    /\ calls' = <<>>
    /\ replies' = <<>>
    /\ result' = Pending
    /\ UNCHANGED <<scope, inSequence, compileVars>>

(* ---------------------------- get -------------------------------------- *)
getFiltersUnscoped(primaryKeyValue) ==
    <<Sql(<<"", " = ", "">>, <<Ident(primaryKey), Raw(primaryKeyValue)>>)>>

getFilters(primaryKeyValue) ==
    <<Sql(<<"", " = ", "">>, <<Ident(primaryKey), Raw(primaryKeyValue)>>)>>
    \o (IF scope.some THEN <<Sql(<<"(", ")">>, <<Nested(scope.q)>>)>> ELSE <<>>)

getQuery(primaryKeyValue, postfix, select) ==
    LET postfixClause == IF postfix.some THEN Sql(<<"", "">>, <<Nested(postfix.q)>>)
                                         ELSE Sql(<<"">>, <<>>)
        selectClause == IF select.some THEN Sql(<<"", "">>, <<Nested(select.q)>>)
                                       ELSE Sql(<<"*">>, <<>>)
    IN  Sql(<<" SELECT ", " FROM ", " WHERE ", " ", "; ">>,
            <<Nested(selectClause), Ident(table),
              Nested(Join(getFilters(primaryKeyValue), Sql(<<" AND ">>, <<>>))),
              Nested(postfixClause)>>)

getOutcomeFirstRow(results) ==
    IF Len(results) = 0 THEN NotFoundError
    ELSE ReturnModel(createModelFromAttributes(results[1]))

getOutcome(results) ==
    IF Len(results) = 0 THEN NotFoundError
    ELSE IF Len(results) > 1 THEN TooManyResultsError
    ELSE ReturnModel(createModelFromAttributes(results[1]))

get ==
    \E k \in Keys, postfix \in Opt(PostfixQ), select \in Opt(SelectQ) :
        /\ Begin([NoOp EXCEPT !.name = "get", !.key = k,
                              !.postfix = postfix, !.select = select])
        /\ calls' = <<Call("query", database, getQuery(k, postfix, select), inSequence)>>
        /\ replies' = <<>>
        /\ pc' = "get_query"
        /\ UNCHANGED inSequence

getResults ==
    \E results \in RowLists :
        /\ pc = "get_query"
        /\ replies' = Append(replies, RowsReply(results))
        /\ result' = getOutcome(results)
        /\ pc' = "done"
        /\ UNCHANGED <<scope, op, calls, inSequence, prev, compileVars>>

(* ---------------------------- search ----------------------------------- *)
searchFiltersScopeWithWhere(where) ==
    IF where.some
    THEN (IF scope.some THEN <<Sql(<<"(", ")">>, <<Nested(scope.q)>>)>> ELSE <<>>)
         \o <<Sql(<<"(", ")">>, <<Nested(where.q)>>)>>
    ELSE <<>>

searchFilters(where) ==
    (IF scope.some THEN <<Sql(<<"(", ")">>, <<Nested(scope.q)>>)>> ELSE <<>>)
    \o (IF where.some THEN <<Sql(<<"(", ")">>, <<Nested(where.q)>>)>> ELSE <<>>)

searchFromClause(from, select) ==
    IF select.some THEN Sql(<<"", "">>, <<ArgOf(from)>>)
                   ELSE Sql(<<"", "">>, <<Ident(table)>>)

searchQuery(from, postfix, where, groupBy, orderBy, select) ==
    LET filters == searchFilters(where)
        whereClause == IF Len(filters) # 0
                       THEN Sql(<<"WHERE ", "">>,
                                <<Nested(Join(filters, Sql(<<" AND ">>, <<>>)))>>)
                       ELSE Sql(<<"">>, <<>>)
        orderByClause == IF orderBy.some
                         THEN Sql(<<"ORDER BY ", "">>, <<Nested(orderBy.q)>>)
                         ELSE Sql(<<"">>, <<>>)
        groupByClause == IF groupBy.some
                         THEN Sql(<<"GROUP BY ", "">>, <<Nested(groupBy.q)>>)
                         ELSE Sql(<<"">>, <<>>)
        postfixClause == IF postfix.some THEN Sql(<<"", "">>, <<Nested(postfix.q)>>)
                                         ELSE Sql(<<"">>, <<>>)
        selectClause == IF select.some THEN Sql(<<"", "">>, <<Nested(select.q)>>)
                                       ELSE Sql(<<"*">>, <<>>)
        fromClause == searchFromClause(from, select)
    IN  Sql(<<" SELECT ", " FROM ", " ", " ", " ", " ", " ">>,
            <<Nested(selectClause), Nested(fromClause), Nested(postfixClause),
              Nested(whereClause), Nested(groupByClause), Nested(orderByClause)>>)

searchOutcome(results) ==
    ReturnModels([i \in 1..Len(results) |-> createModelFromAttributes(results[i])])

search ==
    \E from \in Opt(FromQ), postfix \in Opt(PostfixQ), where \in Opt(WhereQ),
       groupBy \in Opt(GroupByQ), orderBy \in Opt(OrderByQ), select \in Opt(SelectQ) :
        /\ Begin([NoOp EXCEPT !.name = "search", !.from = from, !.postfix = postfix,
                              !.where = where, !.groupBy = groupBy,
                              !.orderBy = orderBy, !.select = select])
        /\ calls' = <<Call("query", database,
                           searchQuery(from, postfix, where, groupBy, orderBy, select),
                           inSequence)>>
        /\ replies' = <<>>
        /\ pc' = "search_query"
        /\ UNCHANGED inSequence

searchResults ==
    \E results \in RowLists :
        /\ pc = "search_query"
        /\ replies' = Append(replies, RowsReply(results))
        /\ result' = searchOutcome(results)
        /\ pc' = "done"
        /\ UNCHANGED <<scope, op, calls, inSequence, prev, compileVars>>

(* ---------------------------- create ----------------------------------- *)
(* Object.entries(o): the keys in insertion order.                         *)
entries(o) == SelectSeq(Fields, LAMBDA f : f \in DOMAIN o)

createQuery(attributes) ==
    LET e == entries(attributes)
        fields == [i \in 1..Len(e) |-> Sql(<<"", "">>, <<Ident(e[i])>>)]
        values == [i \in 1..Len(e) |-> Sql(<<"", "">>, <<Raw(attributes[e[i]])>>)]
    IN  Sql(<<" INSERT INTO ", " (", ") VALUES (", ") ">>,
            <<Ident(table), Nested(Join(fields, Sql(<<", ">>, <<>>))),
              Nested(Join(values, Sql(<<", ">>, <<>>)))>>)

(* SELECT * FROM table WHERE primaryKey = value;                           *)
fetchQuery(value) ==
    Sql(<<" SELECT * FROM ", " WHERE ", " = ", "; ">>,
        <<Ident(table), Ident(primaryKey), Raw(value)>>)

(* (await insertAndGet(...))[0]                                            *)
first(array) == IF Len(array) = 0 THEN UndefinedData ELSE array[1]
isScalarStringOnly(data) == data.ty = "string"
isScalar(data) == data.ty = "string" \/ data.ty = "number"
valueOf(data) == [ty |-> data.ty, n |-> data.n, s |-> data.s]
truthy(data) == data.ty = "object"

createInsertCall(attributes, inSeq) ==
    Call("insertAndGet", sequenceDb, createQuery(attributes), inSeq)
createFetchCall(data, inSeq) ==
    Call("query", sequenceDb, fetchQuery(valueOf(data)), inSeq)

createFetchedOutcome(results) ==
    IF Len(results) = 0 THEN NotFoundError
    ELSE ReturnModel(createModelFromAttributes(results[1]))

createDirectOutcome(data, attributes) ==
    ReturnModel(createModelFromAttributes(IF truthy(data) THEN data.row ELSE attributes))

create ==
    \E attributes \in Rows :
        /\ Begin([NoOp EXCEPT !.name = "create", !.attrs = attributes])
        /\ inSequence' = TRUE
        /\ calls' = <<Call("sequence", database, <<>>, inSequence),
                      createInsertCall(attributes, inSequence')>>
        /\ replies' = <<>>
        /\ pc' = "create_insertAndGet"

createInserted ==
    \E array \in DataLists :
        LET data == first(array) IN
        /\ pc = "create_insertAndGet"
        /\ replies' = Append(replies, DataReply(array))
        /\ IF isScalar(data)
           THEN /\ calls' = Append(calls, createFetchCall(data, inSequence))
                /\ pc' = "create_query"
                /\ UNCHANGED <<result, inSequence>>
           ELSE /\ result' = createDirectOutcome(data, op.attrs)
                /\ pc' = "done"
                /\ inSequence' = FALSE
                /\ UNCHANGED calls
        /\ UNCHANGED <<scope, op, prev, compileVars>>

createFetched ==
    \E results \in RowLists :
        /\ pc = "create_query"
        /\ replies' = Append(replies, RowsReply(results))
        /\ result' = createFetchedOutcome(results)
        /\ pc' = "done"
        /\ inSequence' = FALSE
        /\ UNCHANGED <<scope, op, calls, prev, compileVars>>

(* ---------------------------- update ----------------------------------- *)
updateQuery(model, attributes) ==
    LET e == entries(attributes)
        fieldQueries == [i \in 1..Len(e) |->
            Sql(<<"", " = ", "">>, <<Ident(e[i]), Raw(attributes[e[i]])>>)]
    IN  Sql(<<" UPDATE ", " SET ", " WHERE ", " = ", " ">>,
            <<Ident(table), Nested(Join(fieldQueries, Sql(<<", ">>, <<>>))),
              Ident(primaryKey), Raw(model[primaryKey])>>)

updateCall(model, attributes, inSeq) ==
    Call("updateAndGet", sequenceDb, updateQuery(model, attributes), inSeq)
updateFetchCallOnDatabase(model, inSeq) ==
    Call("query", database, fetchQuery(model[primaryKey]), inSeq)
updateFetchCall(model, inSeq) ==
    Call("query", sequenceDb, fetchQuery(model[primaryKey]), inSeq)

(* Object.assign(model, results[0]); return model                          *)
updateDirectOutcome(model, results) ==
    IF Len(results) = 0 THEN NotFoundError
    ELSE IF Len(results) > 1 THEN TooManyResultsError
    ELSE ReturnModel(Assign(model, results[1]))

updateFetchedOutcomeNoMerge(model, results) ==
    IF Len(results) = 0 THEN NotFoundError
    ELSE ReturnModel(createModelFromAttributes(results[1]))

updateFetchedOutcome(model, results) ==
    IF Len(results) = 0 THEN NotFoundError
    ELSE ReturnModel(Assign(model, results[1]))

update ==
    \E model \in Rows, attributes \in UpdateAttributes :
        /\ Begin([NoOp EXCEPT !.name = "update", !.key = model[primaryKey],
                              !.model = model, !.attrs = attributes])
        /\ inSequence' = TRUE
        /\ calls' = <<Call("sequence", database, <<>>, inSequence),
                      updateCall(model, attributes, inSequence')>>
        /\ replies' = <<>>
        /\ pc' = "update_updateAndGet"

updateResults ==
    \E reply \in {NullReply} \cup {RowsReply(r) : r \in RowLists} :
        /\ pc = "update_updateAndGet"
        /\ replies' = Append(replies, reply)
        /\ IF reply.null
           THEN /\ calls' = Append(calls, updateFetchCall(op.model, inSequence))
                /\ pc' = "update_query"
                /\ UNCHANGED <<result, inSequence>>
           ELSE /\ result' = updateDirectOutcome(op.model, reply.rows)
                /\ pc' = "done"
                /\ inSequence' = FALSE
                /\ UNCHANGED calls
        /\ UNCHANGED <<scope, op, prev, compileVars>>

updateFetched ==
    \E results \in RowLists :
        /\ pc = "update_query"
        /\ replies' = Append(replies, RowsReply(results))
        /\ result' = updateFetchedOutcome(op.model, results)
        /\ pc' = "done"
        /\ inSequence' = FALSE
        /\ UNCHANGED <<scope, op, calls, prev, compileVars>>

(* ---------------------------- delete ----------------------------------- *)
deleteQuery(model) ==
    Sql(<<" DELETE FROM ", " WHERE ", " = ", "; ">>,
        <<Ident(table), Ident(primaryKey), Raw(model[primaryKey])>>)

deleteOutcomeChecked(results) ==
    IF Len(results) = 0 THEN NotFoundError ELSE ReturnVoid

deleteOutcome(results) == ReturnVoid

delete ==
    \E model \in Rows :
        /\ Begin([NoOp EXCEPT !.name = "delete", !.key = model[primaryKey],
                              !.model = model])
        /\ calls' = <<Call("query", database, deleteQuery(model), inSequence)>>
        /\ replies' = <<>>
        /\ pc' = "delete_query"
        /\ UNCHANGED inSequence

deleteResults ==
    \E results \in RowLists :
        /\ pc = "delete_query"
        /\ replies' = Append(replies, RowsReply(results))
        /\ result' = deleteOutcome(results)
        /\ pc' = "done"
        /\ UNCHANGED <<scope, op, calls, inSequence, prev, compileVars>>

(* ---------------------------- Query.compile ---------------------------- *)
(* Query.createFromTemplateString: a Query argument is pushed as it is,    *)
(* anything else is wrapped in a QueryParam.                               *)
createFromTemplateString(strings, params) ==
    [i \in 1..(2 * Len(strings) - 1) |->
        IF i % 2 = 1
        THEN Lit(strings[(i + 1) \div 2])
        ELSE LET a == params[i \div 2]
             IN  IF a.t = "query" THEN a ELSE Param(a.v)]

(* The caller's placeholder function, one of three dialects.               *)
Placeholders == {"dollar", "question", "named"}
indexToPlaceholder(style, i) ==
    IF style = "dollar" THEN "$" \o ToString(i + 1)
    ELSE IF style = "question" THEN "?"
    ELSE ":p" \o ToString(i)

(* `sql += this.parts[i]` of a part that is no QueryParam: a string is     *)
(* appended as it is, a nested Query through its default toString().       *)
partToString(part) == IF part.t = "str" THEN part.s ELSE "[object Object]"

RECURSIVE compileLoop(_, _, _, _, _)
compileLoop(parts, i, sql, params, style) ==
    IF i > Len(parts) THEN [done |-> TRUE, sql |-> sql, params |-> params]
    ELSE IF parts[i].t = "param"
    THEN compileLoop(parts, i + 1, sql \o indexToPlaceholder(style, Len(params)),
                     Append(params, parts[i].v), style)
    ELSE compileLoop(parts, i + 1, sql \o partToString(parts[i]), params, style)

compileQuery(parts, style) == compileLoop(parts, 1, "", <<>>, style)

(* The fragment trees compiled: templates of at most MaxParts arguments,   *)
(* nested at most MaxDepth deep, and the fragment of no parts.             *)
TemplateStrings == {"", "x "}
ParamValues == {Num(1), Str("a")}
RECURSIVE Templates(_)
Templates(depth) ==
    LET args == {Raw(v) : v \in ParamValues}
                \cup (IF depth = 0 THEN {}
                      ELSE {Nested(q) : q \in Templates(depth - 1)})
    IN  UNION { { createFromTemplateString(strings, params) :
                    strings \in [1..(n + 1) -> TemplateStrings],
                    params \in [1..n -> args] } : n \in 0..MaxParts }
Trees == {<<>>} \cup Templates(MaxDepth)

NoCompiled == [done |-> FALSE, sql |-> "", params |-> <<>>]

compile ==
    /\ ~compiled.done
    /\ compiled' = compileQuery(tree, placeholder)
    /\ UNCHANGED <<tree, placeholder, repoVars>>

InitCompile ==
    /\ scope = None
    /\ pc = "idle"
    /\ op = NoOp
    /\ calls = <<>>
    /\ replies = <<>>
    /\ inSequence = FALSE
    /\ result = Pending
    /\ prev = NoPrev
    /\ tree \in Trees
    /\ placeholder \in Placeholders
    /\ compiled = NoCompiled

NextCompile == compile

SpecCompile == InitCompile /\ [][NextCompile]_vars

(* ---------------------------- specification ---------------------------- *)

Init ==
    /\ scope \in {None, Some(ScopeQ)}
    /\ pc = "idle"
    /\ op = NoOp
    /\ calls = <<>>
    /\ replies = <<>>
    /\ inSequence = FALSE
    /\ result = Pending
    /\ prev = NoPrev
    /\ tree = <<>>
    /\ placeholder = "dollar"
    /\ compiled = NoCompiled

Next ==
    \/ get \/ getResults
    \/ search \/ searchResults
    \/ create \/ createInserted \/ createFetched
    \/ update \/ updateResults \/ updateFetched
    \/ delete \/ deleteResults
    \/ settle

Spec == Init /\ [][Next]_vars

(* ====================== properties of the repository =================== *)
(* The leaf parts of a fragment tree, depth first and left to right.       *)
RECURSIVE Flatten(_)
Flatten(q) ==
    IF Len(q) = 0 THEN <<>>
    ELSE (IF Head(q).t = "query" THEN Flatten(Head(q).q) ELSE <<Head(q)>>)
         \o Flatten(Tail(q))

(* The same without the empty literals a template leaves around its args.  *)
Leaves(q) == SelectSeq(Flatten(q), LAMBDA p : ~(p.t = "str" /\ p.s = ""))

(* Every fragment of a tree: the tree and, recursively, its nested ones.   *)
RECURSIVE SubFragments(_)
SubFragments(q) ==
    {q} \cup UNION { SubFragments(q[i].q) : i \in {j \in DOMAIN q : q[j].t = "query"} }

Occurs(kw, s) ==
    \E i \in 1..(Len(s) - Len(kw) + 1) : SubSeq(s, i, i + Len(kw) - 1) = kw
HasKeyword(q, kw) ==
    \E i \in DOMAIN Flatten(q) : Flatten(q)[i].t = "str" /\ Occurs(kw, Flatten(q)[i].s)

Errors == {"NotFound", "TooManyResults"}
DriverCalls == {i \in DOMAIN calls : calls[i].method # "sequence"}

(* `SELECT * FROM table WHERE primaryKey = v;` as the driver receives it.  *)
IsSelectByKey(q, v) ==
    Leaves(q) = <<Lit(" SELECT * FROM "), Ident(table), Lit(" WHERE "),
                  Ident(primaryKey), Lit(" = "), Param(v), Lit("; ")>>

(* C1: get returns a model with exactly the fields of the single row when  *)
(* the driver returns one row, fails with NotFound on no row and with      *)
(* TooManyResults on two or more rows; it never picks the first of several.*)
C1_GetByRowCount ==
    (op.name = "get" /\ pc = "done") =>
        LET rows == replies[1].rows IN
        /\ Len(rows) = 1 => (result.kind = "model" /\ result.model = rows[1])
        /\ Len(rows) = 0 => result.kind = "NotFound"
        /\ Len(rows) >= 2 => result.kind = "TooManyResults"

C1_Witness ==
    /\ op.name = "get" /\ pc = "done"
    /\ Len(replies[1].rows) >= 2
    /\ result.kind = "TooManyResults"

(* C3: create issues one insertAndGet first; a scalar first element leads  *)
(* to exactly one follow-up select by primary key = that scalar, and to    *)
(* NotFound when that select returns no row; a full row leads to no        *)
(* follow-up select and a model with the row's fields; no usable id or row *)
(* leads to no follow-up select and a model with the submitted attributes. *)
C3_CreateSteps ==
    op.name = "create" =>
        /\ Len(calls) >= 2 /\ calls[2].method = "insertAndGet"
        /\ Cardinality({i \in DOMAIN calls : calls[i].method = "insertAndGet"}) = 1
        /\ Len(replies) = 0 => Len(calls) = 2
        /\ Len(replies) >= 1 =>
            LET data == IF Len(replies[1].data) = 0 THEN UndefinedData
                        ELSE replies[1].data[1]
            IN  /\ data.ty \in {"string", "number"} =>
                    /\ Len(calls) = 3
                    /\ calls[3].method = "query"
                    /\ IsSelectByKey(calls[3].query,
                                     [ty |-> data.ty, n |-> data.n, s |-> data.s])
                    /\ pc = "done" =>
                        /\ Len(replies) = 2
                        /\ Len(replies[2].rows) = 0 => result.kind = "NotFound"
                /\ data.ty = "object" =>
                    /\ Len(calls) = 2 /\ pc = "done"
                    /\ result.kind = "model" /\ result.model = data.row
                /\ data.ty \in {"null", "undefined"} =>
                    /\ Len(calls) = 2 /\ pc = "done"
                    /\ result.kind = "model" /\ result.model = op.attrs

C3_Witness ==
    /\ op.name = "create" /\ pc = "done"
    /\ Len(replies) = 2 /\ replies[1].data[1].ty = "number"
    /\ Len(replies[2].rows) = 0
    /\ result.kind = "NotFound"

(* C4: update issues one updateAndGet; on null it issues exactly one       *)
(* confirmatory select by the model's primary key and fails with NotFound  *)
(* on no row; on a row list it issues no further query, fails with         *)
(* NotFound on no row and with TooManyResults on more than one; on success *)
(* the model returned has the input model's fields overridden by those of  *)
(* the first row returned.                                                 *)
C4_UpdateSteps ==
    op.name = "update" =>
        /\ Len(calls) >= 2 /\ calls[2].method = "updateAndGet"
        /\ Cardinality({i \in DOMAIN calls : calls[i].method = "updateAndGet"}) = 1
        /\ Len(replies) = 0 => Len(calls) = 2
        /\ (Len(replies) >= 1 /\ replies[1].null) =>
            /\ Len(calls) = 3
            /\ calls[3].method = "query"
            /\ IsSelectByKey(calls[3].query, op.model[primaryKey])
            /\ pc = "done" =>
                /\ Len(replies) = 2
                /\ Len(replies[2].rows) = 0 => result.kind = "NotFound"
        /\ (Len(replies) >= 1 /\ ~replies[1].null) =>
            /\ Len(calls) = 2 /\ pc = "done"
            /\ Len(replies[1].rows) = 0 => result.kind = "NotFound"
            /\ Len(replies[1].rows) > 1 => result.kind = "TooManyResults"
            /\ Len(replies[1].rows) = 1 => result.kind = "model"
        /\ (pc = "done" /\ result.kind = "model") =>
            LET row == replies[Len(replies)].rows[1] IN
            /\ DOMAIN result.model = (DOMAIN op.model) \cup (DOMAIN row)
            /\ \A f \in DOMAIN row : result.model[f] = row[f]
            /\ \A f \in (DOMAIN op.model) \ (DOMAIN row) : result.model[f] = op.model[f]

C4_Witness ==
    /\ op.name = "update" /\ pc = "done"
    /\ Len(replies) = 2 /\ replies[1].null
    /\ result.kind = "model"
    /\ \E f \in DOMAIN op.model : f \notin DOMAIN replies[2].rows[1]
    /\ \E f \in DOMAIN op.model : /\ f \in DOMAIN replies[2].rows[1]
                                  /\ replies[2].rows[1][f] # op.model[f]

(* C5: delete issues exactly one DELETE filtered on the model's primary    *)
(* key and nothing else, and completes without NotFound or TooManyResults  *)
(* whatever the driver returns, also for a key with no row and when the    *)
(* same model is deleted twice in a row.                                   *)
C5_DeleteOnce ==
    /\ op.name = "delete" =>
        /\ Len(calls) = 1
        /\ calls[1].method = "query"
        /\ Leaves(calls[1].query) =
               <<Lit(" DELETE FROM "), Ident(table), Lit(" WHERE "),
                 Ident(primaryKey), Lit(" = "), Param(op.model[primaryKey]), Lit("; ")>>
        /\ result.kind \notin Errors
        /\ pc = "done" => (result.kind = "void" /\ Len(replies) = 1)
    /\ prev.name = "delete" => prev.kind = "void"

C5_Witness ==
    /\ op.name = "delete" /\ pc = "done"
    /\ prev.name = "delete" /\ prev.key = op.key
    /\ Len(replies[1].rows) = 0
    /\ result.kind = "void"

(* A fragment that is a join with ` AND `, and the fragments it joins.     *)
IsAndJoin(j) ==
    /\ Len(j) % 2 = 1
    /\ \A i \in DOMAIN j : j[i].t = "query" /\ (i % 2 = 0 => j[i].q = <<Lit(" AND ")>>)
Operands(j) == {j[i].q : i \in {k \in DOMAIN j : k % 2 = 1}}
Paren(q) == <<Lit("("), Nested(q), Lit(")")>>
ScopeAndCombined(q, own) ==
    \E j \in SubFragments(q) :
        IsAndJoin(j) /\ Paren(scope.q) \in Operands(j) /\ own \subseteq Operands(j)

(* The filter of its own that the current get or search puts in its WHERE. *)
OwnFilters ==
    IF op.name = "get"
    THEN {<<Lit(""), Ident(primaryKey), Lit(" = "), Param(op.key), Lit("")>>}
    ELSE IF op.where.some THEN {Paren(op.where.q)} ELSE {}

FromClause(q) ==
    LET i == CHOOSE k \in DOMAIN q : q[k].t = "str" /\ Occurs("FROM", q[k].s)
    IN  Leaves(<<q[i + 1]>>)

(* C7: the search query has a WHERE, GROUP BY or ORDER BY keyword only     *)
(* when that clause is present (WHERE also with a scope), and its FROM     *)
(* clause is the caller's `from` when supplied and the table identifier    *)
(* when omitted, with or without `select`.                                 *)
C7_SearchClauses ==
    op.name = "search" =>
        LET q == calls[1].query IN
        /\ HasKeyword(q, "WHERE") => (op.where.some \/ scope.some)
        /\ HasKeyword(q, "GROUP BY") => op.groupBy.some
        /\ HasKeyword(q, "ORDER BY") => op.orderBy.some
        /\ FromClause(q) = IF op.from.some THEN Leaves(op.from.q)
                                           ELSE <<Ident(table)>>

(* C8: search with no where on a scoped repository still sends a WHERE     *)
(* clause that contains the scope; search returns one model per row of the *)
(* driver's list in the same order, and the empty list for no row.         *)
C8_SearchScopeAndRows ==
    op.name = "search" =>
        /\ (scope.some /\ ~op.where.some) =>
               \E c \in SubFragments(calls[1].query) :
                   /\ Len(c) >= 1 /\ c[1].t = "str" /\ Occurs("WHERE", c[1].s)
                   /\ scope.q \in SubFragments(c)
        /\ pc = "done" =>
               LET rows == replies[1].rows IN
               /\ result.kind = "models"
               /\ Len(result.models) = Len(rows)
               /\ \A i \in 1..Len(rows) : result.models[i] = rows[i]

C8_Witness ==
    /\ op.name = "search" /\ pc = "done"
    /\ scope.some /\ ~op.where.some
    /\ Len(replies[1].rows) = 2 /\ replies[1].rows[1] # replies[1].rows[2]
    /\ result.kind = "models" /\ Len(result.models) = 2

(* C9: a model returned by get, create or update from a row list of the    *)
(* driver was built from a list of exactly one row.                        *)
C9_ExactlyOneRow ==
    ( /\ pc = "done" /\ result.kind = "model"
      /\ op.name \in {"get", "create", "update"}
      /\ op.name = "create" => Len(replies) = 2 )
    => Len(replies[Len(replies)].rows) = 1

(* C10: in create and update every driver call is made on the handle the   *)
(* sequence passes to its callback, inside that one sequence call, never   *)
(* on the repository's own handle; the mutation comes first, then at most  *)
(* one select; and no driver call follows a NotFound or TooManyResults.    *)
C10_InSequence ==
    op.name \in {"create", "update"} =>
        /\ calls[1].method = "sequence" /\ calls[1].handle = database
        /\ ~calls[1].inSeq
        /\ DriverCalls = (DOMAIN calls) \ {1}
        /\ \A i \in DriverCalls : calls[i].handle = sequenceDb /\ calls[i].inSeq
        /\ Cardinality(DriverCalls) <= 2
        /\ calls[2].method = (IF op.name = "create" THEN "insertAndGet"
                                                    ELSE "updateAndGet")
        /\ Len(calls) = 3 => calls[3].method = "query"
        /\ inSequence <=> pc # "done"
        /\ result.kind \in Errors => pc = "done"

C10_NoCallAfterError ==
    (op.name \in {"create", "update"} /\ result.kind \in Errors)
        => (calls' = calls \/ result'.kind = "pending")

C10_SequenceDiscipline == []C10_InSequence /\ [][C10_NoCallAfterError]_vars

C10_Witness ==
    /\ op.name = "update" /\ pc = "done"
    /\ Len(calls) = 3 /\ calls[3].handle = sequenceDb
    /\ result.kind = "NotFound"

(* ====================== properties of Query.compile ==================== *)
TreeParams(q) ==
    LET ps == SelectSeq(Flatten(q), LAMBDA p : p.t = "param")
    IN  [i \in 1..Len(ps) |-> ps[i].v]

(* The text of the leaves from the i-th on, k placeholders written so far. *)
RECURSIVE Render(_, _, _, _)
Render(flat, i, k, style) ==
    IF i > Len(flat) THEN ""
    ELSE IF flat[i].t = "param"
    THEN indexToPlaceholder(style, k) \o Render(flat, i + 1, k + 1, style)
    ELSE flat[i].s \o Render(flat, i + 1, k, style)

(* C6: compile returns the parameters of the whole tree, nested fragments  *)
(* included, in depth-first left-to-right order, the k-th placeholder      *)
(* written is indexToPlaceholder(k), and the empty fragment compiles to    *)
(* the empty string with no parameters.                                    *)
C6_CompileDepthFirst ==
    compiled.done =>
        /\ compiled.params = TreeParams(tree)
        /\ compiled.sql = Render(Flatten(tree), 1, 0, placeholder)
        /\ Len(tree) = 0 => (compiled.sql = "" /\ compiled.params = <<>>)

====
